---- MODULE Spec2Model ----
(***************************************************************************)
(* Model of the RK3588 perception pipeline (base/rk3588.py) and of its     *)
(* numeric post-processing kernels (base/post_process/post_processes.py).  *)
(*                                                                         *)
(* Conventions.  numpy arrays are sequences, so an index i of the source   *)
(* is position i+1 here.  Box coordinates are whole numbers; the constant  *)
(* 0.00001 added in nms_boxes is then smaller than any difference of two   *)
(* computed integers and is carried as a positive infinitesimal ("pos").   *)
(* Thresholds are rationals <<numerator, denominator>>.                    *)
(***************************************************************************)
EXTENDS Integers, Sequences, FiniteSets, TLC

VARIABLES
    \* ---- nms_boxes called twice (SpecNms)
    boxes,      \* boxes of one class, each <<x1, y1, x2, y2>>
    scores,     \* their scores
    keep,       \* result of nms_boxes(boxes, scores)
    rekeep,     \* result of nms_boxes(boxes[keep], scores[keep])
    nms_pc,
    \* ---- filter_boxes (SpecFilter)
    fboxes,              \* boxes, one <<x, y, w, h>> per anchor entry
    box_confidences,     \* objectness of each entry, in 1/Unit
    box_class_probs,     \* class probabilities of each entry, in 1/Unit
    filtered,            \* what filter_boxes returned
    filter_pc,
    \* ---- post_yolov5 / yolov5_post_process (SpecYolo)
    input_data,          \* the three scale tensors
    yolo_ret,            \* what yolov5_post_process returned
    draw_calls,          \* calls of draw(frame, ...)
    dets,                \* second component of post_yolov5's result
    yolo_pc,
    \* ---- resnet_post_process (SpecResnet)
    result,              \* result[0].reshape(-1): the logits
    crop_ids,            \* the keys passed to dataset.get_crop_by_id
    resnet_pc,
    \* ---- RK3588: the processes and the three queues (Spec, LiveSpec)
    buf_size,            \* cfg["inference"]["buf_size"]
    inf_proc,            \* cfg["inference"]["inf_proc"]
    post_proc,           \* cfg["inference"]["post_proc"]
    session,             \* "bounded": MaxFrames frames, with history; "endless"
    q,                   \* _q_pre, _q_outs, _q_post: the frame ids queued
    frame_id,            \* the id the camera gives the next frame
    rec,                 \* _rec: the frame it is putting, or 0
    inf,                 \* _pre_inf[i]: the frame it holds, or 0
    post,                \* _post[j]: the frame it holds, or 0
    gd_pc,               \* the main process inside get_data: "idle" or "get"
    sink_alive,          \* the receivers of _q_post still run
    posted,              \* history: the ids put on _q_post, in order
    n_inf,               \* history: how often each id was taken by _pre_inf
    n_post               \* history: how often each id was taken by _post

nmsVars == <<boxes, scores, keep, rekeep, nms_pc>>
filterVars == <<fboxes, box_confidences, box_class_probs, filtered, filter_pc>>
yoloVars == <<input_data, yolo_ret, draw_calls, dets, yolo_pc>>
resnetVars == <<result, crop_ids, resnet_pc>>
pipeVars == <<buf_size, inf_proc, post_proc, session, q, frame_id, rec, inf, post,
              gd_pc, sink_alive, posted, n_inf, n_post>>
vars == <<nmsVars, filterVars, yoloVars, resnetVars, pipeVars>>

(***************************************************************************)
(* Small helpers                                                           *)
(***************************************************************************)
Max(a, b) == IF a >= b THEN a ELSE b
Min(a, b) == IF a <= b THEN a ELSE b
Range(s) == {s[k] : k \in 1..Len(s)}
Gather(s, idx) == [k \in 1..Len(idx) |-> s[idx[k]]]

(***************************************************************************)
(* nms_boxes                                                               *)
(***************************************************************************)
MaxBoxes == 3
ScoreVals == {1, 2, 3}
\* three boxes of area 2 in a row, each overlapping the next, and two disjoint
\* boxes of area 0
BoxSet == {<<0, 0, 2, 1>>, <<1, 0, 3, 1>>, <<2, 0, 4, 1>>,
           <<0, 0, 2, 0>>, <<3, 0, 5, 0>>}

nms_thresh == <<1, 4>>

areas(b) == (b[3] - b[1]) * (b[4] - b[2])

\* xx2 - xx1 and yy2 - yy1 for box i against box j
OverlapW(bi, bj) == Min(bi[3], bj[3]) - Max(bi[1], bj[1])
OverlapH(bi, bj) == Min(bi[4], bj[4]) - Max(bi[2], bj[2])

\* inter = w1 * h1 with w1 = max(0, dx + 0.00001): its whole part, and whether
\* it exceeds the whole part (both w1 and h1 strictly positive)
InterWhole(bi, bj) == Max(0, OverlapW(bi, bj)) * Max(0, OverlapH(bi, bj))
InterPos(bi, bj) == OverlapW(bi, bj) >= 0 /\ OverlapH(bi, bj) >= 0

\* ovr <= nms_thresh, ovr = inter / (areas[i] + areas[j] - inter)
OvrLeThresh(bi, bj) ==
    LET A  == areas(bi) + areas(bj)
        I0 == InterWhole(bi, bj)
        tn == nms_thresh[1]
        td == nms_thresh[2]
    IN  IF A - I0 > 0
        THEN IF InterPos(bi, bj) THEN I0 * (td + tn) < tn * A
                                 ELSE 0 <= tn * A
        ELSE IF A - I0 = 0
        THEN \* inter / (0 - inter) = -1 when inter > 0, 0 / 0 = nan otherwise
             IF InterPos(bi, bj) THEN 0 - td <= tn ELSE FALSE
        ELSE I0 * td >= tn * (A - I0)

\* scores.argsort()[::-1]: the orders of the indices with the scores descending
\* (the place of equal scores is left open by the sort)
RECURSIVE OrdersAsc(_, _)
OrdersAsc(ss, rem) ==
    IF rem = {} THEN {<<>>}
    ELSE UNION {{<<i>> \o o : o \in OrdersAsc(ss, rem \ {i})} :
                    i \in {i \in rem : \A j \in rem : ss[i] <= ss[j]}}
ArgsortAsc(ss) == OrdersAsc(ss, 1..Len(ss))

RECURSIVE OrdersDesc(_, _)
OrdersDesc(ss, rem) ==
    IF rem = {} THEN {<<>>}
    ELSE UNION {{<<i>> \o o : o \in OrdersDesc(ss, rem \ {i})} :
                    i \in {i \in rem : \A j \in rem : ss[i] >= ss[j]}}
ArgsortDesc(ss) == OrdersDesc(ss, 1..Len(ss))

\* the while loop of nms_boxes
RECURSIVE NmsLoopOffByOne(_, _, _)
NmsLoopOffByOne(order, bs, kept) ==
    IF order = <<>> THEN kept
    ELSE LET i == order[1]
             inds == {p \in 1..(Len(order) - 1) : OvrLeThresh(bs[i], bs[order[p + 1]])}
             pos == SelectSeq([p \in 1..(Len(order) - 1) |-> p], LAMBDA p : p \in inds)
         IN  NmsLoopOffByOne([k \in 1..Len(pos) |-> order[pos[k]]], bs, Append(kept, i))

RECURSIVE NmsLoop(_, _, _)
NmsLoop(order, bs, kept) ==
    IF order = <<>> THEN kept
    ELSE LET i == order[1]
         IN  NmsLoop(SelectSeq(Tail(order), LAMBDA j : OvrLeThresh(bs[i], bs[j])),
                     bs, Append(kept, i))

nms_boxes(bs, order) == NmsLoop(order, bs, <<>>)

(***************************************************************************)
(* filter_boxes                                                            *)
(***************************************************************************)
\* confidences and probabilities are multiples of 1/Unit
Unit == 4
\* cfg["inference"]["obj_thresh"], in 1/Unit
obj_thresh == 2
\* len(cfg["inference"]["classes"]): the width of box_class_probs
NumClasses == 2
MaxAnchors == 2
Probs == {1, 2, 3}
RawBoxes == {<<0, 0, 1, 1>>, <<1, 0, 1, 2>>}

RECURSIVE SeqMax(_)
SeqMax(s) == IF Len(s) = 1 THEN s[1] ELSE Max(s[1], SeqMax(Tail(s)))
\* np.argmax: the first position of the maximum, counted from 0
ArgMax(s) == (CHOOSE k \in 1..Len(s) :
                 /\ s[k] = SeqMax(s)
                 /\ \A m \in 1..(k - 1) : s[m] # SeqMax(s)) - 1
\* the positions 0 .. n-1 that np.where selects from
Positions(n) == [k \in 1..n |-> k]

\* the positions of the input that filter_boxes returns, in order
FilterPosNoClassCheck(confs, probs) ==
    SelectSeq(Positions(Len(confs)), LAMBDA k : confs[k] >= obj_thresh)
FilterPos(confs, probs) ==
    LET box_pos == SelectSeq(Positions(Len(confs)), LAMBDA k : confs[k] >= obj_thresh)
        class_max_score == [k \in 1..Len(box_pos) |-> SeqMax(probs[box_pos[k]])]
        class_pos == SelectSeq(Positions(Len(box_pos)),
                               LAMBDA k : class_max_score[k] >= obj_thresh)
    IN  Gather(box_pos, class_pos)

\* scores are products of two multiples of 1/Unit: multiples of 1/Unit^2
filter_boxes(bs, confs, probs) ==
    LET pos == FilterPos(confs, probs)
    IN  [boxes   |-> Gather(bs, pos),
         classes |-> [k \in 1..Len(pos) |-> ArgMax(probs[pos[k]])],
         scores  |-> [k \in 1..Len(pos) |-> SeqMax(probs[pos[k]]) * confs[pos[k]]]]

NoArrays == [boxes |-> <<>>, classes |-> <<>>, scores |-> <<>>]

(***************************************************************************)
(* process, xywh2xyxy, yolov5_post_process, post_yolov5                    *)
(***************************************************************************)
\* cfg["inference"]["net_size"]
net_size == 8
\* input.shape[0:2] of every scale tensor
grid_h == 1
grid_w == 1
masks == <<<<0, 1, 2>>, <<3, 4, 5>>, <<6, 7, 8>>>>
anchors == <<<<10, 13>>, <<16, 30>>, <<33, 23>>, <<30, 61>>, <<62, 45>>,
             <<59, 119>>, <<116, 90>>, <<156, 198>>, <<373, 326>>>>

sigmoid(x) == x

\* One entry of a scale tensor: the raw x, y, w, h, the objectness and the
\* class scores.  A tensor lists its entries row by row, column by column,
\* anchor by anchor (grid_h * grid_w * 3 entries).
Entry(xywh, conf, probs) == [xywh |-> xywh, conf |-> conf, probs |-> probs]
\* the entries drawn for scale s: objectness too low, class scores too low,
\* class 0 and class 1 (the objectness differs from scale to scale)
CellLow == Entry(<<0, 0, 1, 1>>, 1, <<3, 1>>)
CellNoClass == Entry(<<0, 0, 1, 1>>, 3, <<1, 1>>)
CellClass0(s) == Entry(<<0, 0, 1, 1>>, s + 1, <<3, 1>>)
CellClass1(s) == Entry(<<0, 0, 1, 1>>, s + 1, <<1, 2>>)
Cells(s) == {CellClass0(s), CellClass1(s)}
              \cup (IF s # 3 THEN {CellLow} ELSE {})
              \cup (IF s # 2 THEN {CellNoClass} ELSE {})
Tensors(s) == [1..(grid_h * grid_w * 3) -> Cells(s)]

\* process: box centre (sigmoid(xy)*2 - 0.5 + grid) * stride and box size
\* (sigmoid(wh)*2)^2 * anchor.  The centre is kept doubled (half pixels), the
\* size in pixels, so that - 0.5 stays whole.
process(input, mask) ==
    LET stride == net_size \div grid_h
        row(n) == (n - 1) \div (grid_w * 3)
        col(n) == ((n - 1) \div 3) % grid_w
        anc(n) == anchors[mask[((n - 1) % 3) + 1] + 1]
        sq(v) == (sigmoid(v) * 2) * (sigmoid(v) * 2)
    IN  [box |-> [n \in 1..Len(input) |->
                    <<(sigmoid(input[n].xywh[1]) * 4 - 1 + 2 * col(n)) * stride,
                      (sigmoid(input[n].xywh[2]) * 4 - 1 + 2 * row(n)) * stride,
                      sq(input[n].xywh[3]) * anc(n)[1],
                      sq(input[n].xywh[4]) * anc(n)[2]>>],
         box_confidence  |-> [n \in 1..Len(input) |-> sigmoid(input[n].conf)],
         box_class_probs |-> [n \in 1..Len(input) |->
                                [c \in 1..Len(input[n].probs) |-> sigmoid(input[n].probs[c])]]]

\* xywh2xyxy on a doubled centre and a size: the corners x -+ w/2 in half pixels
xywh2xyxy(x) ==
    [n \in 1..Len(x) |->
        <<x[n][1] - x[n][3], x[n][2] - x[n][4], x[n][1] + x[n][3], x[n][2] + x[n][4]>>]

\* the first loop of yolov5_post_process and the concatenations after it
RECURSIVE FilterScales(_, _)
FilterScales(data, k) ==
    IF k > Len(data) THEN NoArrays
    ELSE LET p == process(data[k], masks[k])
             f == filter_boxes(p.box, p.box_confidence, p.box_class_probs)
             r == FilterScales(data, k + 1)
         IN  [boxes   |-> f.boxes \o r.boxes,
              classes |-> f.classes \o r.classes,
              scores  |-> f.scores \o r.scores]

\* the body of "for c in set(classes)" for one class: every result the open
\* order of equal scores allows
NmsOfClass(b, cl, s, c) ==
    LET inds == SelectSeq(Positions(Len(cl)), LAMBDA k : cl[k] = c)
        bc == Gather(b, inds)
        cc == Gather(cl, inds)
        sc == Gather(s, inds)
    IN  {[boxes   |-> Gather(bc, nms_boxes(bc, order)),
          classes |-> Gather(cc, nms_boxes(bc, order)),
          scores  |-> Gather(sc, nms_boxes(bc, order))] : order \in ArgsortDesc(sc)}

\* the second loop, over the classes present (small ints: ascending), appending
\* to nboxes, nclasses, nscores; the lists are kept concatenated, with the
\* number of appends
RECURSIVE NmsClasses(_, _, _, _)
NmsClasses(b, cl, s, c) ==
    IF c >= NumClasses THEN {[n |-> 0, arrays |-> NoArrays]}
    ELSE IF c \notin Range(cl) THEN NmsClasses(b, cl, s, c + 1)
    ELSE {[n |-> 1 + r.n,
           arrays |-> [boxes   |-> g.boxes \o r.arrays.boxes,
                       classes |-> g.classes \o r.arrays.classes,
                       scores  |-> g.scores \o r.arrays.scores]] :
             g \in NmsOfClass(b, cl, s, c), r \in NmsClasses(b, cl, s, c + 1)}

\* Python's None, and an array, as values of one kind
None == [none |-> TRUE, arr |-> <<>>]
Arr(a) == [none |-> FALSE, arr |-> a]

\* the results yolov5_post_process can return: <<boxes, classes, scores>>
YoloNoNoneCheck(data) ==
    LET f == FilterScales(data, 1)
    IN  {<<Arr(r.arrays.boxes), Arr(r.arrays.classes), Arr(r.arrays.scores)>> :
            r \in NmsClasses(xywh2xyxy(f.boxes), f.classes, f.scores, 0)}
yolov5_post_process(data) ==
    LET f == FilterScales(data, 1)
    IN  {IF r.n = 0 THEN <<None, None, None>>
         ELSE <<Arr(r.arrays.boxes), Arr(r.arrays.classes), Arr(r.arrays.scores)>> :
            r \in NmsClasses(xywh2xyxy(f.boxes), f.classes, f.scores, 0)}

(***************************************************************************)
(* resnet_post_process                                                     *)
(***************************************************************************)
TopK == 10
MaxClasses == 11
LogitVals == {0, 1}

\* np.exp, as a whole number: powers of two stand for powers of e (increasing,
\* positive, and the share of one class is 1 only if it is the only class)
RECURSIVE Exp(_)
Exp(x) == IF x = 0 THEN 1 ELSE 2 * Exp(x - 1)
RECURSIVE Sum(_)
Sum(s) == IF s = <<>> THEN 0 ELSE s[1] + Sum(Tail(s))

\* sorted(values, reverse=True)
RECURSIVE SortedDesc(_)
SortedDesc(s) ==
    IF s = <<>> THEN <<>>
    ELSE LET k == CHOOSE k \in 1..Len(s) : \A m \in 1..Len(s) : s[k] >= s[m]
         IN  <<s[k]>> \o SortedDesc([m \in 1..(Len(s) - 1) |-> IF m < k THEN s[m] ELSE s[m + 1]])

Take(s, n) == [k \in 1..Min(n, Len(s)) |-> s[k]]

\* the keys resnet_post_process passes to dataset.get_crop_by_id.  output is
\* kept as numerators over the common denominator sum(np.exp(output));
\* int(cls_id) truncates the probability cls_id.
resnet_post_process(logits) ==
    LET e == [k \in 1..Len(logits) |-> Exp(logits[k])]
        total == Sum(e)
        output_sorted == SortedDesc(e)
        top == Take(output_sorted, TopK)
    IN  [k \in 1..Len(top) |-> top[k] \div total]

(***************************************************************************)
(* RK3588: queues and wiring                                               *)
(***************************************************************************)
MaxFrames == 7
BufSizes == {1, 2}
ProcIds == {1, 2}

QueueNames == {"_q_pre", "_q_outs", "_q_post"}

\* multiprocessing.Queue(maxsize=buf_size): put waits while the queue holds
\* maxsize messages, get waits while it is empty and takes the oldest
FullOffByOne(queue) == Len(queue) > buf_size
Full(queue) == Len(queue) >= buf_size
QPutLifo(queue, m) == <<m>> \o queue
QPut(queue, m) == Append(queue, m)
QFront(queue) == Head(queue)
QRest(queue) == Tail(queue)

\* which queue each process is given
CamIn == "_q_post"
CamOut == "_q_pre"
InfIn == "_q_pre"
InfOut == "_q_outs"
PostInPre == "_q_pre"
PostIn == "_q_outs"
PostOut == "_q_post"
MapIn == "_q_post"

\* range(cfg["inference"]["inf_proc"]) and range(cfg["inference"]["post_proc"])
InfWorkers == 1..inf_proc
PostWorkers == 1..post_proc

(***************************************************************************)
(* Specifications of the kernels: the input is drawn, the function applied *)
(***************************************************************************)
NmsOff ==
    /\ boxes = <<>> /\ scores = <<>> /\ keep = <<>> /\ rekeep = <<>>
    /\ nms_pc = "off"
FilterOff ==
    /\ fboxes = <<>> /\ box_confidences = <<>> /\ box_class_probs = <<>>
    /\ filtered = NoArrays
    /\ filter_pc = "off"
YoloOff ==
    /\ input_data = <<>> /\ yolo_ret = <<None, None, None>>
    /\ draw_calls = 0 /\ dets = None
    /\ yolo_pc = "off"
ResnetOff ==
    /\ result = <<>> /\ crop_ids = <<>>
    /\ resnet_pc = "off"

PipeOff ==
    /\ buf_size = 0 /\ inf_proc = 0 /\ post_proc = 0 /\ session = "off"
    /\ q = [n \in QueueNames |-> <<>>]
    /\ frame_id = 0 /\ rec = 0 /\ inf = <<>> /\ post = <<>>
    /\ gd_pc = "off" /\ sink_alive = FALSE
    /\ posted = <<>> /\ n_inf = <<>> /\ n_post = <<>>

InitNms ==
    /\ \E n \in 0..MaxBoxes :
         /\ boxes \in [1..n -> BoxSet]
         /\ scores \in [1..n -> ScoreVals]
    /\ keep = <<>>
    /\ rekeep = <<>>
    /\ nms_pc = "start"
    /\ FilterOff /\ YoloOff /\ ResnetOff /\ PipeOff

\* keep = nms_boxes(boxes, scores)
NmsFirst ==
    /\ nms_pc = "start"
    /\ \E order \in ArgsortDesc(scores) : keep' = nms_boxes(boxes, order)
    /\ nms_pc' = "once"
    /\ UNCHANGED <<boxes, scores, rekeep, filterVars, yoloVars, resnetVars, pipeVars>>

\* rekeep = nms_boxes(boxes[keep], scores[keep])
NmsSecond ==
    /\ nms_pc = "once"
    /\ \E order \in ArgsortDesc(Gather(scores, keep)) :
         rekeep' = nms_boxes(Gather(boxes, keep), order)
    /\ nms_pc' = "twice"
    /\ UNCHANGED <<boxes, scores, keep, filterVars, yoloVars, resnetVars, pipeVars>>

NextNms == NmsFirst \/ NmsSecond
SpecNms == InitNms /\ [][NextNms]_vars

InitFilter ==
    /\ \E n \in 0..MaxAnchors :
         /\ fboxes \in [1..n -> RawBoxes]
         /\ box_confidences \in [1..n -> Probs]
         /\ box_class_probs \in [1..n -> [1..NumClasses -> Probs]]
    /\ filtered = NoArrays
    /\ filter_pc = "start"
    /\ NmsOff /\ YoloOff /\ ResnetOff /\ PipeOff

Filter ==
    /\ filter_pc = "start"
    /\ filtered' = filter_boxes(fboxes, box_confidences, box_class_probs)
    /\ filter_pc' = "done"
    /\ UNCHANGED <<fboxes, box_confidences, box_class_probs,
                   nmsVars, yoloVars, resnetVars, pipeVars>>

NextFilter == Filter
SpecFilter == InitFilter /\ [][NextFilter]_vars

InitYolo ==
    /\ input_data \in {<<a, b, c>> : a \in Tensors(1), b \in Tensors(2), c \in Tensors(3)}
    /\ yolo_ret = <<None, None, None>>
    /\ draw_calls = 0
    /\ dets = None
    /\ yolo_pc = "start"
    /\ NmsOff /\ FilterOff /\ ResnetOff /\ PipeOff

\* post_yolov5(outputs, frame); format_dets is kept as the triple it is given
PostYolov5 ==
    /\ yolo_pc = "start"
    /\ \E r \in yolov5_post_process(input_data) :
         /\ yolo_ret' = r
         /\ IF ~r[1].none
            THEN /\ draw_calls' = draw_calls + 1
                 /\ dets' = Arr(<<r[1].arr, r[2].arr, r[3].arr>>)
            ELSE UNCHANGED <<draw_calls, dets>>
    /\ yolo_pc' = "done"
    /\ UNCHANGED <<input_data, nmsVars, filterVars, resnetVars, pipeVars>>

NextYolo == PostYolov5
SpecYolo == InitYolo /\ [][NextYolo]_vars

InitResnet ==
    /\ \E n \in 1..MaxClasses : result \in [1..n -> LogitVals]
    /\ crop_ids = <<>>
    /\ resnet_pc = "start"
    /\ NmsOff /\ FilterOff /\ YoloOff /\ PipeOff

ResnetPostProcess ==
    /\ resnet_pc = "start"
    /\ crop_ids' = resnet_post_process(result)
    /\ resnet_pc' = "done"
    /\ UNCHANGED <<result, nmsVars, filterVars, yoloVars, pipeVars>>

NextResnet == ResnetPostProcess
SpecResnet == InitResnet /\ [][NextResnet]_vars

(***************************************************************************)
(* RK3588: __init__, start, and the processes it starts                    *)
(***************************************************************************)
kernelVars == <<nmsVars, filterVars, yoloVars, resnetVars>>

\* __init__ and start(): the queues are empty, every process is started.
\* _post[i] is built from model[i], so post_proc <= inf_proc.
InitPipe(s) ==
    /\ buf_size \in BufSizes
    /\ inf_proc \in ProcIds
    /\ post_proc \in 1..inf_proc
    /\ session = s
    /\ q = [n \in QueueNames |-> <<>>]
    /\ frame_id = 1
    /\ rec = 0
    /\ inf = [i \in InfWorkers |-> 0]
    /\ post = [j \in PostWorkers |-> 0]
    /\ gd_pc = "idle"
    /\ sink_alive = TRUE
    /\ posted = <<>>
    /\ n_inf = [f \in 1..MaxFrames |-> 0]
    /\ n_post = [f \in 1..MaxFrames |-> 0]
    /\ NmsOff /\ FilterOff /\ YoloOff /\ ResnetOff

Count(n, f) == IF session = "bounded" THEN [n EXCEPT ![f] = @ + 1] ELSE n

\* Cam.record: read a frame and give it the next id (in an endless session
\* the frames are not told apart: blocking does not depend on the ids)
Record ==
    /\ rec = 0
    /\ session = "bounded" => frame_id <= MaxFrames
    /\ rec' = frame_id
    /\ frame_id' = IF session = "bounded" THEN frame_id + 1 ELSE frame_id
    /\ UNCHANGED <<buf_size, inf_proc, post_proc, session, q, inf, post, gd_pc,
                   sink_alive, posted, n_inf, n_post, kernelVars>>

\* Cam.record: q_out.put
RecordPut ==
    /\ rec # 0
    /\ ~Full(q[CamOut])
    /\ q' = [q EXCEPT ![CamOut] = QPut(@, rec)]
    /\ rec' = 0
    /\ UNCHANGED <<buf_size, inf_proc, post_proc, session, frame_id, inf, post,
                   gd_pc, sink_alive, posted, n_inf, n_post, kernelVars>>

\* model[i].inference: q_in.get
InferenceGet(i) ==
    /\ i \in InfWorkers
    /\ inf[i] = 0
    /\ q[InfIn] # <<>>
    /\ inf' = [inf EXCEPT ![i] = QFront(q[InfIn])]
    /\ q' = [q EXCEPT ![InfIn] = QRest(@)]
    /\ n_inf' = Count(n_inf, QFront(q[InfIn]))
    /\ UNCHANGED <<buf_size, inf_proc, post_proc, session, frame_id, rec, post,
                   gd_pc, sink_alive, posted, n_post, kernelVars>>

\* model[i].inference: q_out.put
InferencePut(i) ==
    /\ i \in InfWorkers
    /\ inf[i] # 0
    /\ ~Full(q[InfOut])
    /\ q' = [q EXCEPT ![InfOut] = QPut(@, inf[i])]
    /\ inf' = [inf EXCEPT ![i] = 0]
    /\ UNCHANGED <<buf_size, inf_proc, post_proc, session, frame_id, rec, post,
                   gd_pc, sink_alive, posted, n_inf, n_post, kernelVars>>

\* model[j].post_process: q_in.get
PostProcessGet(j) ==
    /\ j \in PostWorkers
    /\ post[j] = 0
    /\ q[PostIn] # <<>>
    /\ post' = [post EXCEPT ![j] = QFront(q[PostIn])]
    /\ q' = [q EXCEPT ![PostIn] = QRest(@)]
    /\ n_post' = Count(n_post, QFront(q[PostIn]))
    /\ UNCHANGED <<buf_size, inf_proc, post_proc, session, frame_id, rec, inf,
                   gd_pc, sink_alive, posted, n_inf, kernelVars>>

\* model[j].post_process: q_out.put
PostProcessPut(j) ==
    /\ j \in PostWorkers
    /\ post[j] # 0
    /\ ~Full(q[PostOut])
    /\ q' = [q EXCEPT ![PostOut] = QPut(@, post[j])]
    /\ post' = [post EXCEPT ![j] = 0]
    /\ posted' = IF session = "bounded" THEN Append(posted, post[j]) ELSE posted
    /\ UNCHANGED <<buf_size, inf_proc, post_proc, session, frame_id, rec, inf,
                   gd_pc, sink_alive, n_inf, n_post, kernelVars>>

\* mapping(q_in): q_in.get
Mapping ==
    /\ sink_alive
    /\ q[MapIn] # <<>>
    /\ q' = [q EXCEPT ![MapIn] = QRest(@)]
    /\ UNCHANGED <<buf_size, inf_proc, post_proc, session, frame_id, rec, inf, post,
                   gd_pc, sink_alive, posted, n_inf, n_post, kernelVars>>

\* show(): Cam.show in the main process, q_in.get
Show ==
    /\ sink_alive
    /\ gd_pc = "idle"
    /\ q[CamIn] # <<>>
    /\ q' = [q EXCEPT ![CamIn] = QRest(@)]
    /\ UNCHANGED <<buf_size, inf_proc, post_proc, session, frame_id, rec, inf, post,
                   gd_pc, sink_alive, posted, n_inf, n_post, kernelVars>>

\* get_data(): if self._q_post.empty(): return None
GetDataCheck ==
    /\ sink_alive
    /\ gd_pc = "idle"
    /\ gd_pc' = IF q["_q_post"] = <<>> THEN "idle" ELSE "get"
    /\ UNCHANGED <<buf_size, inf_proc, post_proc, session, q, frame_id, rec, inf,
                   post, sink_alive, posted, n_inf, n_post, kernelVars>>

\* get_data(): return self._q_post.get()
GetDataGet ==
    /\ sink_alive
    /\ gd_pc = "get"
    /\ q["_q_post"] # <<>>
    /\ q' = [q EXCEPT !["_q_post"] = QRest(@)]
    /\ gd_pc' = "idle"
    /\ UNCHANGED <<buf_size, inf_proc, post_proc, session, frame_id, rec, inf, post,
                   sink_alive, posted, n_inf, n_post, kernelVars>>

\* every receiver of _q_post stalls or crashes
Stall ==
    /\ sink_alive
    /\ sink_alive' = FALSE
    /\ UNCHANGED <<buf_size, inf_proc, post_proc, session, q, frame_id, rec, inf,
                   post, gd_pc, posted, n_inf, n_post, kernelVars>>

Init == InitPipe("bounded")

Next ==
    \/ Record
    \/ RecordPut
    \/ \E i \in ProcIds : InferenceGet(i)
    \/ \E i \in ProcIds : InferencePut(i)
    \/ \E j \in ProcIds : PostProcessGet(j)
    \/ \E j \in ProcIds : PostProcessPut(j)
    \/ Mapping
    \/ Show
    \/ GetDataCheck
    \/ GetDataGet

Spec == Init /\ [][Next]_vars

\* the camera never stops, the receivers of _q_post may stop; every process
\* that can take a step eventually does
InitLive == InitPipe("endless")
NextLive == Next \/ Stall
Fairness ==
    /\ WF_vars(Record)
    /\ WF_vars(RecordPut)
    /\ \A i \in ProcIds : WF_vars(InferenceGet(i)) /\ WF_vars(InferencePut(i))
    /\ \A j \in ProcIds : WF_vars(PostProcessGet(j)) /\ WF_vars(PostProcessPut(j))
    /\ WF_vars(Mapping)
LiveSpec == InitLive /\ [][NextLive]_vars /\ Fairness

(***************************************************************************)
(* Claims                                                                  *)
(***************************************************************************)
\* the geometric intersection-over-union of two boxes is above nms_thresh
IoUAbove(bi, bj) ==
    /\ areas(bi) + areas(bj) - InterWhole(bi, bj) > 0
    /\ InterWhole(bi, bj) * nms_thresh[2]
         > nms_thresh[1] * (areas(bi) + areas(bj) - InterWhole(bi, bj))

OverlapPairs ==
    {pr \in (1..Len(boxes)) \X (1..Len(boxes)) :
        /\ pr[1] # pr[2]
        /\ scores[pr[1]] > scores[pr[2]]
        /\ IoUAbove(boxes[pr[1]], boxes[pr[2]])}

\* C1 (as stated): of every pair of boxes with IoU above nms_thresh the result
\* keeps the higher-scoring box and removes the other, also when a third,
\* higher-scoring box overlaps one of the pair.
C1_KeepsHigherOfEveryPair ==
    nms_pc # "start" =>
        \A pr \in OverlapPairs : pr[1] \in Range(keep) /\ pr[2] \notin Range(keep)

\* C1 (amended): of every pair of boxes with IoU above nms_thresh the result
\* never keeps both; the higher-scoring box is kept and the other removed
\* unless the higher-scoring box is itself suppressed by a kept box that scores
\* at least as high, and the best-scoring box of the input is always kept.
C1_NeverKeepsBoth ==
    nms_pc # "start" =>
        /\ \A pr \in OverlapPairs :
             /\ pr[1] \in Range(keep) => pr[2] \notin Range(keep)
             /\ pr[1] \notin Range(keep) =>
                  \E k \in Range(keep) :
                     /\ scores[k] >= scores[pr[1]]
                     /\ ~OvrLeThresh(boxes[k], boxes[pr[1]])
        /\ \A a, b \in Range(keep) :
             a # b => ~IoUAbove(boxes[a], boxes[b])
        /\ boxes # <<>> =>
             /\ keep # <<>>
             /\ \A k \in 1..Len(scores) : scores[keep[1]] >= scores[k]

\* a pair whose higher-scoring box was suppressed by a third box, so that the
\* lower-scoring box of the pair survived
C1_Witness ==
    /\ nms_pc = "once"
    /\ \E pr \in OverlapPairs : pr[1] \notin Range(keep) /\ pr[2] \in Range(keep)
    /\ \E pr \in OverlapPairs : pr[1] \in Range(keep) /\ pr[2] \notin Range(keep)

\* C3: suppression is idempotent: nms_boxes run on the boxes it kept keeps
\* every one of them again.
C3_Idempotent ==
    nms_pc = "twice" =>
        /\ Len(rekeep) = Len(keep)
        /\ Range(rekeep) = 1..Len(keep)
        /\ \A a, b \in 1..Len(keep) : a # b => keep[a] # keep[b]

C3_Witness ==
    /\ nms_pc = "twice"
    /\ Len(keep) >= 2
    /\ Len(keep) < Len(boxes)
    /\ Len(rekeep) = Len(keep)


\* the input positions filter_boxes returned, recovered from the input alone:
\* position k of the result is the k-th input entry that passes both tests
PassBoth(i) ==
    /\ box_confidences[i] >= obj_thresh
    /\ \E c \in 1..NumClasses : box_class_probs[i][c] >= obj_thresh
Passing == SelectSeq([i \in 1..Len(box_confidences) |-> i], PassBoth)

\* C2 (as stated): filter_boxes never returns an entry whose score
\* objectness * max_class_prob is below obj_thresh.
C2_ScoreNotBelowThresh ==
    filter_pc = "done" =>
        \A k \in 1..Len(filtered.scores) : filtered.scores[k] >= obj_thresh * Unit

\* C2 (amended): filter_boxes returns exactly the entries whose objectness and
\* whose maximum class probability are each at least obj_thresh, with score
\* objectness * max_class_prob and class argmax; the product itself may be
\* below obj_thresh.
C2_EachFactorNotBelowThresh ==
    filter_pc = "done" =>
        /\ Len(filtered.scores) = Len(Passing)
        /\ Len(filtered.boxes) = Len(Passing)
        /\ Len(filtered.classes) = Len(Passing)
        /\ \A k \in 1..Len(Passing) :
             LET i == Passing[k]
                 c == filtered.classes[k] + 1
             IN  /\ filtered.boxes[k] = fboxes[i]
                 /\ c \in 1..NumClasses
                 /\ \A d \in 1..NumClasses : box_class_probs[i][c] >= box_class_probs[i][d]
                 /\ box_class_probs[i][c] >= obj_thresh
                 /\ filtered.scores[k] = box_confidences[i] * box_class_probs[i][c]

\* an entry was returned whose score is below obj_thresh, beside one that was
\* filtered out
C2_Witness ==
    /\ filter_pc = "done"
    /\ Len(filtered.scores) < Len(box_confidences)
    /\ \E k \in 1..Len(filtered.scores) : filtered.scores[k] < obj_thresh * Unit

\* an entry of a scale tensor passes the filter of filter_boxes
CellPasses(e) ==
    /\ e.conf >= obj_thresh
    /\ \E c \in 1..Len(e.probs) : e.probs[c] >= obj_thresh
NoCellPasses ==
    \A s \in 1..Len(input_data) : \A n \in 1..Len(input_data[s]) :
        ~CellPasses(input_data[s][n])

\* C4: when no entry of the three scale tensors passes the filter,
\* yolov5_post_process returns (None, None, None) and post_yolov5 returns the
\* frame undrawn with dets None; when it returns boxes, they are not empty
\* (and come with as many classes and scores).
C4_NoneOrNonEmpty ==
    yolo_pc = "done" =>
        /\ NoCellPasses =>
             /\ yolo_ret = <<None, None, None>>
             /\ draw_calls = 0
             /\ dets = None
        /\ ~NoCellPasses =>
             /\ ~yolo_ret[1].none /\ ~yolo_ret[2].none /\ ~yolo_ret[3].none
             /\ draw_calls = 1
             /\ dets = Arr(<<yolo_ret[1].arr, yolo_ret[2].arr, yolo_ret[3].arr>>)
        /\ ~yolo_ret[1].none =>
             /\ Len(yolo_ret[1].arr) > 0
             /\ Len(yolo_ret[2].arr) = Len(yolo_ret[1].arr)
             /\ Len(yolo_ret[3].arr) = Len(yolo_ret[1].arr)

\* no detection, although some entries have a high objectness
C4_Witness ==
    /\ yolo_pc = "done"
    /\ NoCellPasses
    /\ \E s \in 1..3 : \E n \in 1..Len(input_data[s]) : input_data[s][n].conf >= obj_thresh
    /\ yolo_ret[1].none

\* C9: resnet_post_process passes to dataset.get_crop_by_id the indices of the
\* (up to) 10 classes of highest probability, in descending order of
\* probability.
C9_PassesTopClassIndices ==
    resnet_pc = "done" =>
        /\ Len(crop_ids) = Min(TopK, Len(result))
        /\ \A k \in 1..Len(crop_ids) : crop_ids[k] \in 0..(Len(result) - 1)
        /\ \A a, b \in 1..Len(crop_ids) :
             /\ a # b => crop_ids[a] # crop_ids[b]
             /\ a < b => result[crop_ids[a] + 1] >= result[crop_ids[b] + 1]
        /\ \A k \in 1..Len(crop_ids) : \A i \in 0..(Len(result) - 1) :
             i \notin Range(crop_ids) => result[crop_ids[k] + 1] >= result[i + 1]

\* how often frame f occurs in a sequence, and between capture and _q_post
RECURSIVE Occ(_, _)
Occ(s, f) == IF s = <<>> THEN 0 ELSE (IF s[1] = f THEN 1 ELSE 0) + Occ(Tail(s), f)
Holding(w, f) == Cardinality({k \in DOMAIN w : w[k] = f})
Places(f) ==
    (IF rec = f THEN 1 ELSE 0) + Occ(q["_q_pre"], f) + Holding(inf, f)
        + Occ(q["_q_outs"], f) + Holding(post, f) + Occ(posted, f)

\* frames captured and not yet taken from _q_post
InFlight == (frame_id - 1) - (Len(posted) - Len(q["_q_post"]))

\* C5: each of _q_pre, _q_outs, _q_post holds at most buf_size messages (a put
\* on a full queue waits for a get), so the camera is never ahead of the
\* receivers of _q_post by more than the three queues and one frame per process.
C5_QueuesBounded ==
    /\ \A n \in QueueNames : Len(q[n]) <= buf_size
    /\ InFlight <= 3 * buf_size + inf_proc + post_proc + 1

\* capacity 1: every queue holds one message and the camera waits in its put
C5_Witness ==
    /\ buf_size = 1
    /\ \A n \in QueueNames : Len(q[n]) = 1
    /\ rec # 0
    /\ InFlight = 3 * buf_size + inf_proc + post_proc + 1

\* C6: every frame put on _q_pre is taken by exactly one inference process and
\* every output put on _q_outs by exactly one post-process process: no frame id
\* passes a stage twice and none is lost between capture and _q_post.
C6_ExactlyOnce ==
    /\ \A f \in 1..MaxFrames :
         /\ Places(f) = (IF f < frame_id THEN 1 ELSE 0)
         /\ n_inf[f] = (IF Occ(q["_q_pre"], f) = 1 \/ rec = f \/ f >= frame_id THEN 0 ELSE 1)
         /\ n_post[f] = (IF Holding(post, f) = 1 \/ Occ(posted, f) = 1 THEN 1 ELSE 0)
    /\ Len(q["_q_post"]) <= Len(posted)
    /\ q["_q_post"] = SubSeq(posted, Len(posted) - Len(q["_q_post"]) + 1, Len(posted))

\* every frame of the session went through two inference and two post-process
\* processes and was put on _q_post
C6_Witness ==
    /\ inf_proc = 2 /\ post_proc = 2
    /\ Len(posted) = MaxFrames
    /\ \A f \in 1..MaxFrames : n_inf[f] = 1 /\ n_post[f] = 1

Increasing(s) == \A a, b \in 1..Len(s) : a < b => s[a] < s[b]

\* one step of a first-in first-out queue: a put at the back or a get at the front
FifoStep(n) ==
    \/ q'[n] = q[n]
    \/ /\ Len(q'[n]) = Len(q[n]) + 1
       /\ SubSeq(q'[n], 1, Len(q[n])) = q[n]
    \/ /\ q[n] # <<>>
       /\ q'[n] = Tail(q[n])

\* C7: every queue hands its messages on in the order they were put, and with
\* one inference and one post-process process the frames reach _q_post in
\* increasing id order (with two processes in a stage they need not: C7_Witness).
C7_FifoAndOrder ==
    /\ [](inf_proc = 1 /\ post_proc = 1 => Increasing(posted))
    /\ [][\A n \in QueueNames : FifoStep(n)]_vars

\* with two inference processes a later frame was put on _q_post first
C7_Witness ==
    /\ inf_proc >= 2
    /\ \E a, b \in 1..Len(posted) : a < b /\ posted[a] > posted[b]

\* the camera and every inference and post-process process wait in a put on a
\* full queue
AllBlocked ==
    /\ \A n \in QueueNames : Len(q[n]) = buf_size
    /\ rec # 0
    /\ \A i \in InfWorkers : inf[i] # 0
    /\ \A j \in PostWorkers : post[j] # 0

\* C8: once the receivers of _q_post have stopped, the pipeline reaches the
\* state in which all three queues are full and every process before them
\* waits in a put, and stays there; while they keep running it never stays
\* there.
C8_StallBlocksAll ==
    /\ (~sink_alive) ~> [](AllBlocked /\ ~ENABLED NextLive)
    /\ []<>(~sink_alive \/ ~AllBlocked)

C8_Witness ==
    /\ ~sink_alive
    /\ AllBlocked
    /\ inf_proc = 2
    /\ buf_size = 2

\* C10: get_data never waits: between its empty() and its get() no other
\* receiver takes the last message of _q_post.
C10_GetDataNeverBlocks ==
    gd_pc = "get" => q["_q_post"] # <<>>

====
